---- MODULE Spec2Model ----
(***************************************************************************)
(* Process orchestration of src/say/main.py: says() (the guarded synthesis *)
(* script and the copy of its stdout into the cache), speak_result() (the  *)
(* playback watchdog) and list_speakers() (the line-oriented reader).      *)
(***************************************************************************)
EXTENDS Integers, Sequences, FiniteSets, TLC

\* ------------------------------------------------------------------ bounds
\* longest audio payload the engine writes to its stdout in one run
MaxAudio == 2
\* most diagnostic lines the synthesis child writes to its stderr in one run
MaxErr == 3
\* capacity of an OS pipe, in items (bytes of stdout, lines of stderr)
PipeCap == 2
\* most diagnostic lines the player writes to its stderr in one run
MaxLog == 2
\* most items the model lets the diagnostic line queue hold
MaxQueue == 2
\* most lines the speaker-listing child writes in one run
MaxLines == 2

\* ------------------------------------------------------ values of the model
\* the bytes of an audio payload
Byte == {0, 1}
\* the environment values of `host` (os.getenv('host')); "unset" is None
HostEnv == {"unset", "", "localhost", "127.0.0.1", "h1"}
\* exit statuses a command can end with, as the shell sees them in $?
ExitCodes == {0, 1, 2}
\* exit statuses of ssh when the transport itself fails
TransportCodes == {255}
\* a file of the cache directory: absent, or present with contents
NoFile == [exists |-> FALSE, data |-> <<>>]
File(d) == [exists |-> TRUE, data |-> d]
\* the temp path /tmp/tts_output.wav: absent, left by another run, or written by
\* the engine of the running script
TmpStates == {"absent", "stale", "fresh"}
\* Python's None where a string is expected
None == "None"
\* an exit status k as a value that may also be None (NoRc)
Rc(k) == <<k>>
NoRc == <<>>
\* returncode of a child ended by SIGTERM
TermStatus == Rc(-15)
\* q.get(timeout=5): the window of the watchdog, in seconds
Timeout == 5
\* a value read from a stream: a str (text mode) or bytes
Str(t) == [type |-> "str", text |-> t]
Bytes(t) == [type |-> "bytes", text |-> t]
\* no value
NoLine == [type |-> "none", text |-> ""]
\* a speaker list: the not-found sentinel None, or a present list of names
NoSpeakers == [present |-> FALSE, names |-> <<>>]
Speakers(ns) == [present |-> TRUE, names |-> ns]
\* the payloads of a 'dict_keys([...])' line: the quoted names between the brackets
Payloads == {<<>>, <<"'p225'">>, <<"'p225'", "'p226'">>}
\* a line of the speaker-listing child: whether it starts with 'dict_keys([',
\* whether it contains 'I agree to the terms', and its payload
OutLine(m, a, p) == [marker |-> m, agree |-> a, payload |-> p]
OutLines ==
  {OutLine(FALSE, a, <<>>) : a \in BOOLEAN}
    \cup {OutLine(TRUE, a, p) : a \in BOOLEAN, p \in Payloads}
\* the lines the player writes to its stderr
LogTexts == {"QuickTimer Player started", "execution error"}

VARIABLES
  pc,         \* position of the main thread ("idle": no routine is running)
  live,       \* children spawned by the running routine and not yet waited on
  tmp,        \* /tmp/tts_output.wav on the engine host, one of TmpStates
  cache,      \* cachedir/speech.wav: NoFile or File(contents)
  cmd,        \* argument vector of the synthesis child
  stdin,      \* what says() has done to the child's stdin: "open","written","closed"
  retcode,    \* says(): retcode (NoRc before proc.wait() returned)
  resp,       \* says(): the result printed ("none", "ok", "error")
  sh,         \* position of the guard script run by the child
  engRc,      \* exit status of the engine command ($?)
  shRetcode,  \* the script's variable retcode
  rmRc,       \* exit status of the script's rm -f
  shRc,       \* exit status of the child (NoRc while it runs)
  outPipe,    \* bytes in the child's stdout pipe, not yet read
  outAll,     \* every byte the child wrote to stdout in this run (history)
  errPipe,    \* lines in the child's stderr pipe, not yet read
  errAll,     \* number of lines the child wrote to stderr in this run
  engineRan,  \* whether the script executed the engine command (history)
  tmpAtGuard, \* state of the temp path when the guard tested it (history)
  cacheBefore,\* state of the cache artifact when says() was called (history)
  ffRc,       \* speak_result(): exit status of ffmpeg (NoRc before it ended)
  player,     \* the osascript child: "none", "running", "exited"
  plRc,       \* exit status of the player
  plLog,      \* number of lines the player wrote to its stderr
  plPipe,     \* lines in the player's stderr pipe, not yet read
  sigterm,    \* a SIGTERM was delivered to the running player
  reader,     \* the thread running enqueue_output: "none", "running", "done"
  q,          \* the diagnostic line queue
  clock,      \* seconds elapsed since q.get() was entered
  line,       \* speak_result(): _line (NoLine before the pop returned)
  pretcode,   \* speak_result(): retcode
  outcome,    \* how speak_result() ended
  reported,   \* the exit code logged with the runtime failure
  steps,      \* the lines speak_result() has executed, in order (history)
  spkCache,   \* speakers.json: the entry of the configured model
  lchild,     \* the speaker-listing child: "none", "running", "exited"
  lscript,    \* the lines that child has yet to write
  lpipe,      \* lines in that child's stdout pipe, not yet read
  lstdin,     \* that child's stdin: "open", "closed"
  acks,       \* number of 'y' lines list_speakers() wrote to stdin
  speakers,   \* list_speakers(): speakers
  lresp,      \* list_speakers(): the response printed
  exc,        \* the exception that left the running routine uncaught ("none")
  benv,       \* command builders: the value of os.getenv('host')
  bargv,      \* command builders: the argv handed to form_tts_cmdline
  bhost,      \* command builders: what get_host() returned
  bcmd,       \* command builders: the command line built
  bstep,      \* command builders: "none", "env", "host", "tts" or "bash"
  lout,       \* list_speakers(): every line the child writes in this run
  ra,         \* concurrent attempts: the state of each says() process
  rhist       \* concurrent attempts: what has happened between them

fsVars == <<tmp, cache>>
parentVars == <<cmd, stdin, retcode, resp>>
childVars == <<sh, engRc, shRetcode, rmRc, shRc>>
pipeVars == <<outPipe, outAll, errPipe, errAll>>
histVars == <<engineRan, tmpAtGuard, cacheBefore>>
saysVars == <<parentVars, childVars, pipeVars, histVars>>
playerVars == <<player, plRc, plLog, plPipe, sigterm>>
readerVars == <<reader, q>>
watchVars == <<ffRc, clock, line, pretcode, outcome, reported, steps>>
speakVars == <<playerVars, readerVars, watchVars>>
listVars == <<lchild, lscript, lpipe, lstdin, acks, speakers, lresp, lout>>
progVars == <<pc, live, fsVars, spkCache, saysVars, speakVars, listVars>>
buildVars == <<benv, bargv, bhost, bcmd, bstep>>
raceVars == <<ra, rhist>>
extraVars == <<exc, buildVars, raceVars>>
vars == <<progVars, extraVars>>

\* --------------------------------------------------------- pure functions
\* get_host(): the host where TTS is installed, or None if it is local
get_host(env) ==
  IF env = "unset" \/ env = "" \/ env \in {"localhost", "127.0.0.1"}
  THEN None ELSE env

\* "if host:": None and the empty string are false
Truthy(host) == host # None /\ host # ""

\* str(tts_bin), the path of the tts executable
TtsBin == "tts"

\* a bug: the ssh tokens are added after the base vector
form_tts_append(host, tts_bin, argv) ==
  <<tts_bin>> \o argv \o (IF Truthy(host) THEN <<"ssh", host>> ELSE <<>>)

\* form_tts_cmdline(host, tts_bin, argv)
form_tts_cmdline(host, tts_bin, argv) ==
  (IF Truthy(host) THEN <<"ssh", host>> ELSE <<>>) \o <<tts_bin>> \o argv

\* form_bash_cmdline(host)
form_bash_cmdline(host) ==
  (IF Truthy(host) THEN <<"ssh", host>> ELSE <<>>) \o <<"bash">>

\* a bug: the child is never waited on
ReapNothing(children, child) == children

\* proc.wait(): the child is reaped
Reap(children, child) == children \ {child}

\* a bug: the file is opened without truncating it
OpenKeep(file) == File(file.data)

\* open(output, 'wb'): the file is created, or truncated if it exists
OpenWb(file) == File(<<>>)

\* outfile.write(chunk)
WriteFile(file, chunk) == File(file.data \o chunk)

\* a bug: the rollback leaves the file in place
UnlinkNothing(file) == file

\* output.unlink()
Unlink(file) == NoFile

\* a bug: the guard never sees the temp path
TestNever(t) == FALSE

\* [ -f /tmp/tts_output.wav ]
TestF(t) == t # "absent"

\* a bug: the cleanup step removes nothing
RmNothing(t, ok) == t

\* rm -f /tmp/tts_output.wav, with ok its success: the path after it
RmF(t, ok) == IF ok THEN "absent" ELSE t

\* a bug: the script ends with the status of its last command (exit $?)
ExitLast(rc, last) == last

\* exit $retcode: the script's exit status, given retcode and the status of
\* the command before it (rm)
ExitStatus(rc, last) == rc

\* says()'s variables while says() is not running
SaysIdle ==
  /\ cmd = <<>> /\ stdin = "open" /\ retcode = NoRc /\ resp = "none"
  /\ sh = "none" /\ engRc = NoRc /\ shRetcode = NoRc /\ rmRc = NoRc /\ shRc = NoRc
  /\ outPipe = <<>> /\ outAll = <<>> /\ errPipe = 0 /\ errAll = 0
  /\ engineRan = FALSE /\ tmpAtGuard = "untested" /\ cacheBefore = NoFile

\* the process that ran says() has ended
SaysGone ==
  /\ cmd' = <<>> /\ stdin' = "open" /\ retcode' = NoRc /\ resp' = "none"
  /\ sh' = "none" /\ engRc' = NoRc /\ shRetcode' = NoRc /\ rmRc' = NoRc
  /\ shRc' = NoRc
  /\ outPipe' = <<>> /\ outAll' = <<>> /\ errPipe' = 0 /\ errAll' = 0
  /\ engineRan' = FALSE /\ tmpAtGuard' = "untested" /\ cacheBefore' = NoFile

\* speak_result()'s variables while it is not running
SpeakIdle ==
  /\ ffRc = NoRc /\ player = "none" /\ plRc = NoRc /\ plLog = 0 /\ plPipe = <<>>
  /\ sigterm = FALSE /\ reader = "none" /\ q = <<>> /\ clock = 0
  /\ line = NoLine /\ pretcode = NoRc /\ outcome = "none" /\ reported = NoRc
  /\ steps = <<>>

\* the process that ran speak_result() has ended, its daemon thread with it
SpeakGone ==
  /\ ffRc' = NoRc /\ player' = "none" /\ plRc' = NoRc /\ plLog' = 0
  /\ plPipe' = <<>> /\ sigterm' = FALSE /\ reader' = "none" /\ q' = <<>>
  /\ clock' = 0 /\ line' = NoLine /\ pretcode' = NoRc /\ outcome' = "none"
  /\ reported' = NoRc /\ steps' = <<>>

\* list_speakers()'s variables while it is not running
ListIdle ==
  /\ lchild = "none" /\ lscript = <<>> /\ lpipe = <<>> /\ lstdin = "open"
  /\ acks = 0 /\ speakers = Speakers(<<>>) /\ lresp = "none" /\ lout = <<>>

\* the process that ran list_speakers() has ended
ListGone ==
  /\ lchild' = "none" /\ lscript' = <<>> /\ lpipe' = <<>> /\ lstdin' = "open"
  /\ acks' = 0 /\ speakers' = Speakers(<<>>) /\ lresp' = "none" /\ lout' = <<>>

\* the says() processes that run at the same time against one host
Attempts == {"a", "b"}
\* the other attempt
Other(i) == CHOOSE j \in Attempts : j # i
\* the audio an attempt's engine writes to its stdout
AudioOf(i) == IF i = "a" THEN <<0>> ELSE <<1>>
\* an attempt that has not started: par is the parent's position, chi the
\* child's, out the state of the stdout pipe, linked whether the parent's open
\* file is the one the cache path names
NotStarted ==
  [par |-> "none", chi |-> "none", tested |-> "untested", ran |-> FALSE,
   erc |-> NoRc, rc |-> NoRc, out |-> "none", linked |-> FALSE,
   resp |-> "none"]

\* no concurrent attempts
RaceIdle ==
  /\ ra = [i \in Attempts |-> NotStarted]
  /\ rhist = [overlap |-> FALSE, tmpTaken |-> FALSE, artifactTaken |-> FALSE]

\* no command is being built
BuildIdle ==
  /\ benv = "unset" /\ bargv = <<>> /\ bhost = None /\ bcmd = <<>>
  /\ bstep = "none"

\* no routine is running and nothing is on disk
InitProg ==
  /\ pc = "idle" /\ live = {}
  /\ tmp = "absent" /\ cache = NoFile
  /\ spkCache = Speakers(<<>>)
  /\ SaysIdle
  /\ SpeakIdle
  /\ ListIdle
  /\ exc = "none"
  /\ RaceIdle

Init ==
  /\ InitProg
  /\ BuildIdle

\* ------------------------------------------------------------ environment
\* A run of the engine that crashed outside this orchestration left its
\* output at the temp path.
StaleTmpAppears ==
  /\ pc = "idle" /\ tmp = "absent"
  /\ tmp' = "stale"
  /\ UNCHANGED <<extraVars, spkCache, listVars, speakVars, pc, live, cache, saysVars>>

\* Someone removes the temp file by hand.
StaleTmpRemoved ==
  /\ pc = "idle" /\ tmp # "absent"
  /\ tmp' = "absent"
  /\ UNCHANGED <<extraVars, spkCache, listVars, speakVars, pc, live, cache, saysVars>>

\* ------------------------------------------------------- says(): the parent
\* lines 225-269: build the script, spawn the shell child
SaysCall ==
  /\ pc = "idle"
  /\ \E env \in HostEnv : cmd' = form_bash_cmdline(get_host(env))
  /\ pc' = "s_write"
  /\ live' = live \cup {"bash"}
  /\ sh' = "start"
  /\ cacheBefore' = cache
  /\ UNCHANGED <<extraVars, spkCache, listVars, stdin, retcode, resp, engRc, shRetcode, rmRc, shRc, pipeVars,
                 engineRan, tmpAtGuard>>
  /\ UNCHANGED <<spkCache, listVars, speakVars, fsVars>>

\* line 270: proc.stdin.write(cmdline)
SaysWrite ==
  /\ pc = "s_write"
  /\ stdin' = "written"
  /\ pc' = "s_close"
  /\ UNCHANGED <<extraVars, spkCache, listVars, speakVars, live, fsVars, cmd, retcode, resp, childVars, pipeVars, histVars>>

\* line 271: proc.stdin.close() flushes the buffered script into the pipe
SaysClose ==
  /\ pc = "s_close"
  /\ sh # "exited"
  /\ stdin' = "closed"
  /\ pc' = "s_open"
  /\ UNCHANGED <<extraVars, spkCache, listVars, speakVars, live, fsVars, cmd, retcode, resp, childVars, pipeVars, histVars>>

\* line 264: the command of form_bash_cmdline cannot be started:
\* FileNotFoundError leaves says()
SaysCallNotFound ==
  /\ pc = "idle"
  /\ exc' = "FileNotFoundError"
  /\ pc' = "s_exc"
  /\ UNCHANGED <<buildVars, raceVars, live, fsVars, spkCache, saysVars, speakVars, listVars>>

\* line 271: the child has exited without reading its stdin: the flush of
\* close() fails, Popen.__exit__ waits for the child and BrokenPipeError
\* leaves says()
SaysCloseBroken ==
  /\ pc = "s_close"
  /\ sh = "exited"
  /\ exc' = "BrokenPipeError"
  /\ live' = Reap(live, "bash")
  /\ pc' = "s_exc"
  /\ UNCHANGED <<buildVars, raceVars, fsVars, spkCache, saysVars, speakVars, listVars>>

\* line 273: with open(output, 'wb') as outfile
SaysOpen ==
  /\ pc = "s_open"
  /\ cache' = OpenWb(cache)
  /\ pc' = "s_copy"
  /\ UNCHANGED <<extraVars, spkCache, listVars, speakVars, live, tmp, saysVars>>

\* line 274: shutil.copyfileobj reads a chunk of stdout and writes it
SaysCopy ==
  /\ pc = "s_copy"
  /\ outPipe # <<>>
  /\ cache' = WriteFile(cache, <<Head(outPipe)>>)
  /\ outPipe' = Tail(outPipe)
  /\ UNCHANGED <<extraVars, spkCache, listVars, speakVars, pc, live, tmp, parentVars, childVars, outAll, errPipe, errAll,
                 histVars>>

\* a bug: the copy is left before end-of-stream
SaysCopyLeftEarly ==
  /\ pc = "s_copy"
  /\ pc' = "s_stderr"
  /\ UNCHANGED <<extraVars, spkCache, listVars, speakVars, live, fsVars, saysVars>>

\* line 274: copyfileobj reads end-of-stream (the child has closed stdout)
SaysCopyEof ==
  /\ pc = "s_copy"
  /\ outPipe = <<>> /\ sh = "exited"
  /\ pc' = "s_stderr"
  /\ UNCHANGED <<extraVars, spkCache, listVars, speakVars, live, fsVars, saysVars>>

\* lines 275-277: one line of stderr is read and logged
SaysReadErr ==
  /\ pc = "s_stderr"
  /\ errPipe > 0
  /\ errPipe' = errPipe - 1
  /\ UNCHANGED <<extraVars, spkCache, listVars, speakVars, pc, live, fsVars, parentVars, childVars, outPipe, outAll, errAll,
                 histVars>>

\* line 275: the stderr loop reads end-of-stream
SaysErrEof ==
  /\ pc = "s_stderr"
  /\ errPipe = 0 /\ sh = "exited"
  /\ pc' = "s_wait"
  /\ UNCHANGED <<extraVars, spkCache, listVars, speakVars, live, fsVars, saysVars>>

\* line 279: retcode = proc.wait()
SaysWait ==
  /\ pc = "s_wait"
  /\ sh = "exited"
  /\ retcode' = shRc
  /\ live' = Reap(live, "bash")
  /\ pc' = "s_check"
  /\ UNCHANGED <<extraVars, spkCache, listVars, speakVars, fsVars, cmd, stdin, resp, childVars, pipeVars, histVars>>

\* a bug: the rollback is taken only for exit statuses above 1
SaysCheckAboveOne ==
  /\ pc = "s_check"
  /\ cache' = IF retcode \notin {Rc(0), Rc(1)} THEN Unlink(cache) ELSE cache
  /\ pc' = "s_resp"
  /\ UNCHANGED <<extraVars, spkCache, listVars, speakVars, live, tmp, saysVars>>

\* lines 280-282: if retcode != 0: output.unlink()
SaysCheck ==
  /\ pc = "s_check"
  /\ cache' = IF retcode # Rc(0) THEN Unlink(cache) ELSE cache
  /\ pc' = "s_resp"
  /\ UNCHANGED <<extraVars, spkCache, listVars, speakVars, live, tmp, saysVars>>

\* lines 283-303: the response is printed; says() returns
SaysResp ==
  /\ pc = "s_resp"
  /\ resp' = IF retcode = Rc(0) THEN "ok" ELSE "error"
  /\ pc' = "s_ret"
  /\ UNCHANGED <<extraVars, spkCache, listVars, speakVars, live, fsVars, cmd, stdin, retcode, childVars, pipeVars, histVars>>

\* main(), line 393: says() has returned and the program ends
SaysExit ==
  /\ pc = "s_ret"
  /\ pc' = "idle"
  /\ SaysGone
  /\ UNCHANGED <<extraVars, spkCache, listVars, speakVars, live, fsVars>>

\* ---------------------------------------- says(): the child (guard script)
\* The remote shell cannot be reached: ssh prints a diagnostic and exits with
\* its own status; the script is never run.
ShTransportFail ==
  /\ sh = "start" /\ cmd[1] = "ssh"
  /\ \E rc \in TransportCodes : shRc' = Rc(rc)
  /\ sh' = "exited"
  /\ errPipe' = errPipe + 1 /\ errAll' = errAll + 1
  /\ UNCHANGED <<extraVars, spkCache, listVars, speakVars, pc, live, fsVars, parentVars, engRc, shRetcode, rmRc, outPipe,
                 outAll, histVars>>

\* a bug: the guard removes the file it found
ShGuardCollisionCleans ==
  /\ sh = "start" /\ stdin = "closed"
  /\ TestF(tmp)
  /\ tmpAtGuard' = tmp
  /\ tmp' = "absent"
  /\ errPipe' = errPipe + 1 /\ errAll' = errAll + 1
  /\ shRc' = Rc(1)
  /\ sh' = "exited"
  /\ UNCHANGED <<extraVars, spkCache, listVars, speakVars, pc, live, cache, parentVars,
                 engRc, shRetcode, rmRc, outPipe, outAll, engineRan, cacheBefore>>

\* lines 253-256: the temp path exists: echo ... >&2; exit 1
ShGuardCollision ==
  /\ sh = "start" /\ stdin = "closed"
  /\ TestF(tmp)
  /\ tmpAtGuard' = tmp
  /\ errPipe' = errPipe + 1 /\ errAll' = errAll + 1
  /\ shRc' = Rc(1)
  /\ sh' = "exited"
  /\ UNCHANGED <<extraVars, spkCache, listVars, speakVars, pc, live, fsVars, parentVars, engRc, shRetcode, rmRc, outPipe,
                 outAll, engineRan, cacheBefore>>

\* lines 253-257: the temp path does not exist: the engine command is started
ShGuardPass ==
  /\ sh = "start" /\ stdin = "closed"
  /\ ~TestF(tmp)
  /\ tmpAtGuard' = tmp
  /\ engineRan' = TRUE
  /\ sh' = "engine"
  /\ UNCHANGED <<extraVars, spkCache, listVars, speakVars, pc, live, fsVars, parentVars, engRc, shRetcode, rmRc, shRc,
                 pipeVars, cacheBefore>>

\* line 257: the engine writes its audio to --out_path
EngineWriteTmp ==
  /\ sh = "engine"
  /\ tmp' = "fresh"
  /\ UNCHANGED <<extraVars, spkCache, listVars, speakVars, pc, live, cache, saysVars>>

\* line 257: the engine writes a byte of audio to its stdout (--pipe_out)
EngineWriteOut ==
  /\ sh = "engine"
  /\ Len(outAll) < MaxAudio /\ Len(outPipe) < PipeCap
  /\ \E b \in Byte :
        /\ outPipe' = Append(outPipe, b)
        /\ outAll' = Append(outAll, b)
  /\ UNCHANGED <<extraVars, spkCache, listVars, speakVars, pc, live, fsVars, parentVars, childVars, errPipe, errAll, histVars>>

\* line 257: the engine calls write() for its next diagnostic line; the call
\* returns only when the stderr pipe has room for the line
EngineStartErr ==
  /\ sh = "engine"
  /\ errAll < MaxErr
  /\ sh' = "errwrite"
  /\ UNCHANGED <<extraVars, spkCache, listVars, speakVars, pc, live, fsVars, parentVars,
                 engRc, shRetcode, rmRc, shRc, pipeVars, histVars>>

\* line 257: the stderr pipe has room: the write of the line returns
EngineWriteErr ==
  /\ sh = "errwrite"
  /\ errPipe < PipeCap
  /\ errPipe' = errPipe + 1 /\ errAll' = errAll + 1
  /\ sh' = "engine"
  /\ UNCHANGED <<extraVars, spkCache, listVars, speakVars, pc, live, fsVars, parentVars,
                 engRc, shRetcode, rmRc, shRc, outPipe, outAll, histVars>>

\* line 257: the engine exits
EngineExit ==
  /\ sh = "engine"
  /\ \E rc \in ExitCodes : engRc' = Rc(rc)
  /\ sh' = "retcode"
  /\ UNCHANGED <<extraVars, spkCache, listVars, speakVars, pc, live, fsVars, parentVars, shRetcode, rmRc, shRc, pipeVars,
                 histVars>>

\* line 258: retcode=$?
ShRetcode ==
  /\ sh = "retcode"
  /\ shRetcode' = engRc
  /\ sh' = "rm"
  /\ UNCHANGED <<extraVars, spkCache, listVars, speakVars, pc, live, fsVars, parentVars, engRc, rmRc, shRc, pipeVars, histVars>>

\* line 259: rm -f; it cannot fail on a path that does not exist
ShRm ==
  /\ sh = "rm"
  /\ \E ok \in BOOLEAN :
        /\ tmp = "absent" => ok
        /\ tmp' = RmF(tmp, ok)
        /\ rmRc' = IF ok THEN Rc(0) ELSE Rc(1)
  /\ sh' = "exit"
  /\ UNCHANGED <<extraVars, spkCache, listVars, speakVars, pc, live, cache, parentVars, engRc, shRetcode, shRc, pipeVars,
                 histVars>>

\* line 260: exit $retcode
ShExit ==
  /\ sh = "exit"
  /\ shRc' = ExitStatus(shRetcode, rmRc)
  /\ sh' = "exited"
  /\ UNCHANGED <<extraVars, spkCache, listVars, speakVars, pc, live, fsVars, parentVars, engRc, shRetcode, rmRc, pipeVars,
                 histVars>>

\* ------------------------------------------- speak_result(): the watchdog
\* subprocess.run(cmd, check=True): CalledProcessError on a nonzero status
\* a bug: check=False
CheckNever(rc) == FALSE

CheckRaises(rc) == rc # 0

\* a bug: every nonzero status but 1 is taken for success
OutcomeOnlyOne(rc) == IF rc = Rc(1) THEN "runtime_failure" ELSE "success"

\* lines 361-366: the outcome of a playback whose launch was detected
Outcome(rc) == IF rc # Rc(0) THEN "runtime_failure" ELSE "success"

\* file.readline(): the next line, or the empty str at end-of-stream
Readline(pipe) == IF pipe # <<>> THEN Str(Head(pipe)) ELSE Str("")

\* the sentinel of iter(out.readline, b'')
Sentinel == Bytes("")

\* lines 314-320: speak_result() is called
SpeakCall ==
  /\ pc = "idle"
  /\ pc' = "p_run"
  /\ UNCHANGED <<extraVars, spkCache, listVars, live, fsVars, saysVars, speakVars>>

\* line 321: subprocess.run starts ffmpeg
SpeakRun ==
  /\ pc = "p_run"
  /\ live' = live \cup {"ffmpeg"}
  /\ steps' = Append(steps, "run")
  /\ pc' = "p_runwait"
  /\ UNCHANGED <<extraVars, spkCache, listVars, fsVars, saysVars, playerVars, readerVars, ffRc, clock, line,
                 pretcode, outcome, reported>>

\* line 321: subprocess.run waits for ffmpeg; check=True
SpeakRunWait ==
  /\ pc = "p_runwait"
  /\ \E rc \in ExitCodes :
        /\ ffRc' = Rc(rc)
        /\ pc' = IF CheckRaises(rc) THEN "p_except" ELSE "p_spawn"
  /\ live' = Reap(live, "ffmpeg")
  /\ UNCHANGED <<extraVars, spkCache, listVars, fsVars, saysVars, playerVars, readerVars, clock, line, pretcode,
                 outcome, reported, steps>>

\* line 321: ffmpeg cannot be started: FileNotFoundError is no
\* CalledProcessError and leaves speak_result()
SpeakRunNotFound ==
  /\ pc = "p_run"
  /\ exc' = "FileNotFoundError"
  /\ pc' = "p_exc"
  /\ UNCHANGED <<buildVars, raceVars, live, fsVars, spkCache, saysVars, speakVars, listVars>>

\* lines 322-324: except CalledProcessError: log, return
SpeakExcept ==
  /\ pc = "p_except"
  /\ outcome' = "conversion_failed"
  /\ steps' = Append(steps, "except")
  /\ pc' = "p_ret"
  /\ UNCHANGED <<extraVars, spkCache, listVars, live, fsVars, saysVars, playerVars, readerVars, ffRc, clock, line,
                 pretcode, reported>>

\* lines 341-346: the player is spawned with its stderr piped
SpeakSpawn ==
  /\ pc = "p_spawn"
  /\ player' = "running"
  /\ live' = live \cup {"osascript"}
  /\ steps' = Append(steps, "spawn")
  /\ pc' = "p_thread"
  /\ UNCHANGED <<extraVars, spkCache, listVars, fsVars, saysVars, plRc, plLog, plPipe, sigterm, readerVars, ffRc,
                 clock, line, pretcode, outcome, reported>>

\* line 346: osascript cannot be started: FileNotFoundError leaves
\* speak_result()
SpeakSpawnNotFound ==
  /\ pc = "p_spawn"
  /\ exc' = "FileNotFoundError"
  /\ pc' = "p_exc"
  /\ UNCHANGED <<buildVars, raceVars, live, fsVars, spkCache, saysVars, speakVars, listVars>>

\* lines 348-351: the queue is made and the reader thread started
SpeakThread ==
  /\ pc = "p_thread"
  /\ q' = <<>>
  /\ reader' = "running"
  /\ steps' = Append(steps, "thread")
  /\ pc' = "p_pop"
  /\ UNCHANGED <<extraVars, spkCache, listVars, live, fsVars, saysVars, playerVars, ffRc, clock, line, pretcode,
                 outcome, reported>>

\* line 353: a second passes while q.get(timeout=5) blocks
Tick ==
  /\ pc = "p_pop"
  /\ clock < Timeout
  /\ clock' = clock + 1
  /\ UNCHANGED <<extraVars, spkCache, listVars, pc, live, fsVars, saysVars, playerVars, readerVars, ffRc, line,
                 pretcode, outcome, reported, steps>>

\* a bug: the player is terminated although a line was popped
SpeakPopLineTerminates ==
  /\ pc = "p_pop"
  /\ q # <<>>
  /\ line' = Head(q)
  /\ q' = Tail(q)
  /\ steps' = Append(steps, "pop")
  /\ pc' = "p_term"
  /\ UNCHANGED <<extraVars, spkCache, listVars, live, fsVars, saysVars, playerVars, reader,
                 ffRc, clock, pretcode, outcome, reported>>

\* line 353: q.get returns the head of the queue
SpeakPopLine ==
  /\ pc = "p_pop"
  /\ q # <<>>
  /\ line' = Head(q)
  /\ q' = Tail(q)
  /\ steps' = Append(steps, "pop")
  /\ pc' = "p_wait"
  /\ UNCHANGED <<extraVars, spkCache, listVars, live, fsVars, saysVars, playerVars, reader, ffRc, clock, pretcode,
                 outcome, reported>>

\* a bug: queue.Empty is swallowed and the watchdog goes on to line 361
SpeakPopEmptyFallThrough ==
  /\ pc = "p_pop"
  /\ q = <<>> /\ clock = Timeout
  /\ steps' = Append(steps, "empty")
  /\ pc' = "p_wait"
  /\ UNCHANGED <<extraVars, spkCache, listVars, live, fsVars, saysVars, playerVars, readerVars,
                 ffRc, clock, line, pretcode, outcome, reported>>

\* lines 353-354: the window has elapsed with the queue empty: queue.Empty
SpeakPopEmpty ==
  /\ pc = "p_pop"
  /\ q = <<>> /\ clock = Timeout
  /\ steps' = Append(steps, "empty")
  /\ pc' = "p_term"
  /\ UNCHANGED <<extraVars, spkCache, listVars, live, fsVars, saysVars, playerVars, readerVars, ffRc, clock, line,
                 pretcode, outcome, reported>>

\* line 357: proc.terminate()
SpeakTerminate ==
  /\ pc = "p_term"
  /\ sigterm' = (player = "running")
  /\ steps' = Append(steps, "terminate")
  /\ pc' = "p_termwait"
  /\ UNCHANGED <<extraVars, spkCache, listVars, live, fsVars, saysVars, player, plRc, plLog, plPipe, readerVars,
                 ffRc, clock, line, pretcode, outcome, reported>>

\* line 358: proc.wait()
SpeakTermWait ==
  /\ pc = "p_termwait"
  /\ player = "exited"
  /\ live' = Reap(live, "osascript")
  /\ steps' = Append(steps, "wait")
  /\ pc' = "p_failed"
  /\ UNCHANGED <<extraVars, spkCache, listVars, fsVars, saysVars, playerVars, readerVars, ffRc, clock, line,
                 pretcode, outcome, reported>>

\* lines 359-360: QuickTime Player is not launched correctly; return
SpeakFailed ==
  /\ pc = "p_failed"
  /\ outcome' = "failed_to_launch"
  /\ pc' = "p_ret"
  /\ UNCHANGED <<extraVars, spkCache, listVars, live, fsVars, saysVars, playerVars, readerVars, ffRc, clock, line,
                 pretcode, reported, steps>>

\* line 361: retcode = proc.wait()
SpeakWait ==
  /\ pc = "p_wait"
  /\ player = "exited"
  /\ pretcode' = plRc
  /\ live' = Reap(live, "osascript")
  /\ steps' = Append(steps, "wait_natural")
  /\ pc' = "p_check"
  /\ UNCHANGED <<extraVars, spkCache, listVars, fsVars, saysVars, playerVars, readerVars, ffRc, clock, line,
                 outcome, reported>>

\* lines 362-366: a nonzero retcode is logged; speak_result() returns
SpeakCheck ==
  /\ pc = "p_check"
  /\ outcome' = Outcome(pretcode)
  /\ reported' = IF pretcode # Rc(0) THEN pretcode ELSE NoRc
  /\ pc' = "p_ret"
  /\ UNCHANGED <<extraVars, spkCache, listVars, live, fsVars, saysVars, playerVars, readerVars, ffRc, clock, line,
                 pretcode, steps>>

\* main(), line 395: speak_result() has returned and the program ends; the
\* daemon reader thread ends with it
SpeakExit ==
  /\ pc = "p_ret"
  /\ pc' = "idle"
  /\ SpeakGone
  /\ UNCHANGED <<extraVars, spkCache, listVars, live, fsVars, saysVars>>

\* main(), lines 393 and 395: the exception ends the program with a traceback
Traceback ==
  /\ pc \in {"s_exc", "p_exc"}
  /\ pc' = "idle"
  /\ exc' = "none"
  /\ SaysGone
  /\ SpeakGone
  /\ UNCHANGED <<buildVars, raceVars, live, fsVars, spkCache, listVars>>

\* ------------------------------------ speak_result(): the reader thread
\* lines 308-310: one turn of `for line in iter(out.readline, b'')`: readline
\* returns once a line or end-of-stream is there; the loop ends when the value
\* equals the sentinel, otherwise the value is put on the queue.  The queue
\* is unbounded: a line is always put; MaxQueue bounds only how many times the
\* model lets the value read at end-of-stream be put.
ReaderStep ==
  /\ reader = "running"
  /\ plPipe # <<>> \/ player = "exited"
  /\ LET l == Readline(plPipe) IN
       IF l = Sentinel
       THEN /\ reader' = "done"
            /\ UNCHANGED <<q, plPipe>>
       ELSE /\ plPipe # <<>> \/ Len(q) < MaxQueue
            /\ q' = Append(q, l)
            /\ plPipe' = IF plPipe # <<>> THEN Tail(plPipe) ELSE plPipe
            /\ UNCHANGED reader
  /\ UNCHANGED <<extraVars, spkCache, listVars, pc, live, fsVars, saysVars, player,
                 plRc, plLog, sigterm, watchVars>>

\* ------------------------------------------- speak_result(): the player
\* lines 325-340: the script logs a line to stderr
PlayerLog ==
  /\ player = "running"
  /\ plLog < MaxLog /\ Len(plPipe) < PipeCap
  /\ \E t \in LogTexts : plPipe' = Append(plPipe, t)
  /\ plLog' = plLog + 1
  /\ UNCHANGED <<extraVars, spkCache, listVars, pc, live, fsVars, saysVars, player, plRc, sigterm, readerVars,
                 watchVars>>

\* the player exits by itself
PlayerExit ==
  /\ player = "running" /\ ~sigterm
  /\ \E rc \in ExitCodes : plRc' = Rc(rc)
  /\ player' = "exited"
  /\ UNCHANGED <<extraVars, spkCache, listVars, pc, live, fsVars, saysVars, plLog, plPipe, sigterm, readerVars,
                 watchVars>>

\* the player is ended by the SIGTERM of proc.terminate()
PlayerKilled ==
  /\ player = "running" /\ sigterm
  /\ plRc' = TermStatus
  /\ player' = "exited"
  /\ UNCHANGED <<extraVars, spkCache, listVars, pc, live, fsVars, saysVars, plLog, plPipe, sigterm, readerVars,
                 watchVars>>

\* ----------------------------------------------- list_speakers(): parent
\* all sequences over S of length at most n
SeqsUpTo(S, n) == UNION {[1..k -> S] : k \in 0..n}

\* x[1:-1]: a name without its first and last character
Unquote(x) ==
  CASE x = "'p225'" -> "p225"
    [] x = "'p226'" -> "p226"
    [] OTHER -> ""

\* lines 154-155: line[len('dict_keys(['):-len('])')].split(', ') and x[1:-1]
\* of each piece; ''.split(', ') is ['']
ParseSpeakers(payload) ==
  LET pieces == IF payload = <<>> THEN <<"">> ELSE payload
  IN  [i \in 1..Len(pieces) |-> Unquote(pieces[i])]

\* lines 128-136: the cached list is read; the child is needed when it is an
\* empty list
ListCall ==
  /\ pc = "idle"
  /\ speakers' = spkCache
  /\ pc' = IF spkCache.present /\ spkCache.names = <<>> THEN "l_spawn" ELSE "l_resp"
  /\ UNCHANGED <<lout, extraVars, live, fsVars, spkCache, saysVars, speakVars, lchild, lscript,
                 lpipe, lstdin, acks, lresp>>

\* lines 137-149: the child is spawned; its output is any sequence of lines
ListSpawn ==
  /\ pc = "l_spawn"
  /\ \E out \in SeqsUpTo(OutLines, MaxLines) : lscript' = out /\ lout' = out
  /\ lchild' = "running"
  /\ live' = live \cup {"tts"}
  /\ pc' = "l_loop"
  /\ UNCHANGED <<extraVars, fsVars, spkCache, saysVars, speakVars, lpipe, lstdin, acks,
                 speakers, lresp>>

\* a bug: the agreement phrase is looked for before the marker
ListReadLineAgreeFirst ==
  /\ pc = "l_loop"
  /\ lpipe # <<>>
  /\ LET l == Head(lpipe) IN
       /\ acks' = IF l.agree THEN acks + 1 ELSE acks
       /\ IF l.marker
          THEN /\ speakers' = Speakers(ParseSpeakers(l.payload))
               /\ pc' = "l_close"
          ELSE UNCHANGED <<pc, speakers>>
  /\ lpipe' = Tail(lpipe)
  /\ UNCHANGED <<lout, extraVars, live, fsVars, spkCache, saysVars, speakVars, lchild,
                 lscript, lstdin, lresp>>

\* lines 150-159: one line is read: the marker ends the loop, the agreement
\* phrase is answered with 'y'
ListReadLine ==
  /\ pc = "l_loop"
  /\ lpipe # <<>>
  /\ LET l == Head(lpipe) IN
       IF l.marker
       THEN /\ speakers' = Speakers(ParseSpeakers(l.payload))
            /\ pc' = "l_close"
            /\ UNCHANGED acks
       ELSE /\ acks' = IF l.agree THEN acks + 1 ELSE acks
            /\ UNCHANGED <<pc, speakers>>
  /\ lpipe' = Tail(lpipe)
  /\ UNCHANGED <<lout, extraVars, live, fsVars, spkCache, saysVars, speakVars, lchild,
                 lscript, lstdin, lresp>>

\* lines 150, 160-161: end-of-stream without a break: speakers = None
ListEof ==
  /\ pc = "l_loop"
  /\ lpipe = <<>> /\ lchild = "exited"
  /\ speakers' = NoSpeakers
  /\ pc' = "l_close"
  /\ UNCHANGED <<lout, extraVars, live, fsVars, spkCache, saysVars, speakVars, lchild, lscript,
                 lpipe, lstdin, acks, lresp>>

\* line 162: proc.stdin.close()
ListClose ==
  /\ pc = "l_close"
  /\ lstdin' = "closed"
  /\ pc' = "l_wait"
  /\ UNCHANGED <<lout, extraVars, live, fsVars, spkCache, saysVars, speakVars, lchild, lscript,
                 lpipe, acks, speakers, lresp>>

\* line 163: retcode = proc.wait()
ListWait ==
  /\ pc = "l_wait"
  /\ lchild = "exited"
  /\ live' = Reap(live, "tts")
  /\ pc' = "l_save"
  /\ UNCHANGED <<extraVars, fsVars, spkCache, saysVars, speakVars, listVars>>

\* lines 164-167: the list is saved in speakers.json
ListSave ==
  /\ pc = "l_save"
  /\ spkCache' = speakers
  /\ pc' = "l_resp"
  /\ UNCHANGED <<extraVars, live, fsVars, saysVars, speakVars, listVars>>

\* lines 168-178: the response is printed; list_speakers() returns
ListResp ==
  /\ pc = "l_resp"
  /\ lresp' = IF speakers.present /\ speakers.names # <<>> THEN "speakers" ELSE "default"
  /\ pc' = "l_ret"
  /\ UNCHANGED <<lout, extraVars, live, fsVars, spkCache, saysVars, speakVars, lchild, lscript,
                 lpipe, lstdin, acks, speakers>>

\* main(), line 380: list_speakers() has returned and the program ends
ListExit ==
  /\ pc = "l_ret"
  /\ pc' = "idle"
  /\ ListGone
  /\ UNCHANGED <<extraVars, live, fsVars, spkCache, saysVars, speakVars>>

\* someone deletes speakers.json
SpeakersJsonRemoved ==
  /\ pc = "idle"
  /\ spkCache # Speakers(<<>>)
  /\ spkCache' = Speakers(<<>>)
  /\ UNCHANGED <<extraVars, pc, live, fsVars, saysVars, speakVars, listVars>>

\* ------------------------------------------------ list_speakers(): child
\* the child writes its next line to stdout
ListChildWrite ==
  /\ lchild = "running"
  /\ lscript # <<>> /\ Len(lpipe) < PipeCap
  /\ lpipe' = Append(lpipe, Head(lscript))
  /\ lscript' = Tail(lscript)
  /\ UNCHANGED <<lout, extraVars, pc, live, fsVars, spkCache, saysVars, speakVars, lchild, lstdin,
                 acks, speakers, lresp>>

\* the child has written everything and exits
ListChildExit ==
  /\ lchild = "running"
  /\ lscript = <<>>
  /\ lchild' = "exited"
  /\ UNCHANGED <<lout, extraVars, pc, live, fsVars, spkCache, saysVars, speakVars, lscript, lpipe,
                 lstdin, acks, speakers, lresp>>

Next ==
  \/ StaleTmpAppears \/ StaleTmpRemoved
  \/ SaysCall \/ SaysWrite \/ SaysClose \/ SaysOpen \/ SaysCopy \/ SaysCopyEof
  \/ SaysReadErr \/ SaysErrEof \/ SaysWait \/ SaysCheck \/ SaysResp \/ SaysExit
  \/ ShTransportFail \/ ShGuardCollision \/ ShGuardPass
  \/ EngineWriteTmp \/ EngineWriteOut \/ EngineStartErr \/ EngineWriteErr \/ EngineExit
  \/ ShRetcode \/ ShRm \/ ShExit
  \/ SpeakCall \/ SpeakRun \/ SpeakRunWait \/ SpeakExcept \/ SpeakSpawn \/ SpeakThread
  \/ Tick \/ SpeakPopLine \/ SpeakPopEmpty \/ SpeakTerminate \/ SpeakTermWait
  \/ SpeakFailed \/ SpeakWait \/ SpeakCheck \/ SpeakExit
  \/ ReaderStep \/ PlayerLog \/ PlayerExit \/ PlayerKilled
  \/ ListCall \/ ListSpawn \/ ListReadLine \/ ListEof \/ ListClose \/ ListWait
  \/ ListSave \/ ListResp \/ ListExit \/ SpeakersJsonRemoved
  \/ ListChildWrite \/ ListChildExit
  \/ SaysCallNotFound \/ SaysCloseBroken \/ SpeakRunNotFound \/ SpeakSpawnNotFound
  \/ Traceback

Spec == Init /\ [][Next]_vars

\* ------------------------------------------------- the command builders
\* the longest argv handed to form_tts_cmdline
MaxArgv == 3
\* the words of an argv
Tokens == {"--list_models", "--text"}
\* values of the host variable beyond HostEnv: none of them is local
HostEnvAll == HostEnv \cup {"LOCALHOST", "127.0.0.2", "ssh"}

InitCmd ==
  /\ InitProg
  /\ benv \in HostEnvAll
  /\ bargv \in SeqsUpTo(Tokens, MaxArgv)
  /\ bhost = None /\ bcmd = <<>>
  /\ bstep = "env"

\* main(), lines 373, 377, 388: host = get_host()
BuildGetHost ==
  /\ bstep = "env"
  /\ bhost' = get_host(benv)
  /\ bstep' = "host"
  /\ UNCHANGED <<progVars, exc, raceVars, benv, bargv, bcmd>>

\* lines 98, 137: form_tts_cmdline(host, tts_bin, argv)
BuildTts ==
  /\ bstep = "host"
  /\ bcmd' = form_tts_cmdline(bhost, TtsBin, bargv)
  /\ bstep' = "tts"
  /\ UNCHANGED <<progVars, exc, raceVars, benv, bargv, bhost>>

\* line 264: form_bash_cmdline(host)
BuildBash ==
  /\ bstep = "host"
  /\ bcmd' = form_bash_cmdline(bhost)
  /\ bstep' = "bash"
  /\ UNCHANGED <<progVars, exc, raceVars, benv, bargv, bhost>>

NextCmd == BuildGetHost \/ BuildTts \/ BuildBash

SpecCmd == InitCmd /\ [][NextCmd]_vars

\* ------------------------------------- two says() processes at a time
\* Each attempt is says() with its own child, pipes and open file; the temp
\* path on the host and cachedir/speech.wav are shared.  The steps of lines
\* 264-271 are one step here, as are those of lines 258-260.
nonRace == <<progVars, exc, buildVars>>
\* outfile.write(chunk) through a file object opened at offset 0
WriteAtStart(file, chunk) == File(chunk)

InitRace ==
  /\ InitProg
  /\ BuildIdle

\* lines 264-271: the child is spawned, the script written, stdin closed
RaceStart(i) ==
  /\ ra[i].par = "none"
  /\ ra' = [ra EXCEPT ![i].par = "open", ![i].chi = "start"]
  /\ UNCHANGED <<nonRace, rhist>>

\* line 273: open(output, 'wb')
RaceOpen(i) ==
  /\ ra[i].par = "open"
  /\ cache' = OpenWb(cache)
  /\ ra' = [ra EXCEPT ![i].par = "copy", ![i].linked = TRUE]
  /\ UNCHANGED <<pc, live, tmp, spkCache, saysVars, speakVars, listVars, exc,
                 buildVars, rhist>>

\* lines 253-256: the temp path exists: exit 1
RaceGuardCollision(i) ==
  /\ ra[i].chi = "start"
  /\ TestF(tmp)
  /\ ra' = [ra EXCEPT ![i].tested = tmp, ![i].rc = Rc(1), ![i].chi = "exited"]
  /\ UNCHANGED <<nonRace, rhist>>

\* a bug: the engine is started without the test of the temp path
RaceGuardBlind(i) ==
  /\ ra[i].chi = "start"
  /\ ra' = [ra EXCEPT ![i].tested = tmp, ![i].ran = TRUE, ![i].chi = "engine"]
  /\ rhist' = [rhist EXCEPT !.overlap = @ \/ ra[Other(i)].chi = "engine"]
  /\ UNCHANGED nonRace

\* lines 253-257: the temp path does not exist: the engine is started
RaceGuardPass(i) ==
  /\ ra[i].chi = "start"
  /\ ~TestF(tmp)
  /\ ra' = [ra EXCEPT ![i].tested = tmp, ![i].ran = TRUE, ![i].chi = "engine"]
  /\ rhist' = [rhist EXCEPT !.overlap = @ \/ ra[Other(i)].chi = "engine"]
  /\ UNCHANGED nonRace

\* line 257: the engine writes its audio to --out_path
RaceEngineWriteTmp(i) ==
  /\ ra[i].chi = "engine"
  /\ tmp' = "fresh"
  /\ UNCHANGED <<pc, live, cache, spkCache, saysVars, speakVars, listVars, exc,
                 buildVars, raceVars>>

\* line 257: the engine writes its audio to its stdout
RaceEngineWriteOut(i) ==
  /\ ra[i].chi = "engine" /\ ra[i].out = "none"
  /\ ra' = [ra EXCEPT ![i].out = "piped"]
  /\ UNCHANGED <<nonRace, rhist>>

\* line 257: the engine exits
RaceEngineExit(i) ==
  /\ ra[i].chi = "engine"
  /\ \E rc \in ExitCodes : ra' = [ra EXCEPT ![i].erc = Rc(rc), ![i].chi = "rm"]
  /\ UNCHANGED <<nonRace, rhist>>

\* lines 258-260: retcode=$?; rm -f; exit $retcode
RaceRm(i) ==
  /\ ra[i].chi = "rm"
  /\ \E ok \in BOOLEAN :
        /\ tmp = "absent" => ok
        /\ tmp' = RmF(tmp, ok)
        /\ ra' = [ra EXCEPT
                    ![i].rc = ExitStatus(ra[i].erc, IF ok THEN Rc(0) ELSE Rc(1)),
                    ![i].chi = "exited"]
        /\ rhist' = [rhist EXCEPT !.tmpTaken =
                       @ \/ (tmp # "absent" /\ RmF(tmp, ok) = "absent"
                              /\ ra[Other(i)].chi = "engine")]
  /\ UNCHANGED <<pc, live, cache, spkCache, saysVars, speakVars, listVars, exc,
                 buildVars>>

\* line 274: copyfileobj writes the audio it read from the pipe; a file that
\* was unlinked meanwhile takes the bytes with it
RaceCopy(i) ==
  /\ ra[i].par = "copy" /\ ra[i].out = "piped"
  /\ cache' = IF ra[i].linked THEN WriteAtStart(cache, AudioOf(i)) ELSE cache
  /\ ra' = [ra EXCEPT ![i].out = "copied"]
  /\ UNCHANGED <<pc, live, tmp, spkCache, saysVars, speakVars, listVars, exc,
                 buildVars, rhist>>

\* lines 274-279: end-of-stream on stdout and stderr; retcode = proc.wait()
RaceWait(i) ==
  /\ ra[i].par = "copy" /\ ra[i].out # "piped" /\ ra[i].chi = "exited"
  /\ ra' = [ra EXCEPT ![i].par = "check"]
  /\ UNCHANGED <<nonRace, rhist>>

\* lines 280-282: if retcode != 0: output.unlink(), which raises
\* FileNotFoundError when the path is gone
RaceCheck(i) ==
  /\ ra[i].par = "check"
  /\ IF ra[i].rc = Rc(0)
     THEN /\ ra' = [ra EXCEPT ![i].par = "resp"]
          /\ UNCHANGED <<cache, rhist>>
     ELSE IF cache.exists
     THEN /\ cache' = Unlink(cache)
          /\ ra' = [j \in Attempts |->
                      IF j = i THEN [ra[j] EXCEPT !.par = "resp", !.linked = FALSE]
                      ELSE [ra[j] EXCEPT !.linked = FALSE]]
          /\ rhist' = [rhist EXCEPT !.artifactTaken =
                         @ \/ ra[Other(i)].resp = "ok"]
     ELSE /\ ra' = [ra EXCEPT ![i].par = "exc"]
          /\ UNCHANGED <<cache, rhist>>
  /\ UNCHANGED <<pc, live, tmp, spkCache, saysVars, speakVars, listVars, exc,
                 buildVars>>

\* lines 283-303: the response is printed; says() returns
RaceResp(i) ==
  /\ ra[i].par = "resp"
  /\ ra' = [ra EXCEPT ![i].resp = IF ra[i].rc = Rc(0) THEN "ok" ELSE "error",
                      ![i].par = "ret"]
  /\ UNCHANGED <<nonRace, rhist>>

NextRace ==
  \E i \in Attempts :
    \/ RaceStart(i) \/ RaceOpen(i) \/ RaceGuardCollision(i) \/ RaceGuardPass(i)
    \/ RaceEngineWriteTmp(i) \/ RaceEngineWriteOut(i) \/ RaceEngineExit(i)
    \/ RaceRm(i) \/ RaceCopy(i) \/ RaceWait(i) \/ RaceCheck(i) \/ RaceResp(i)

SpecRace == InitRace /\ [][NextRace]_vars

\* ------------------------------------------------------------------ claims
\* says() has returned (main(), line 393)
SaysReturned == pc = "s_ret"
\* the attempt ended on the collision guard
Collided == tmpAtGuard \notin {"untested", "absent"}

\* C1: when says() ends an attempt with exit code 0, the cache artifact exists
\* and holds exactly the bytes the child wrote to its stdout in that run.
C1_SuccessArtifact ==
  (SaysReturned /\ retcode = Rc(0)) => (cache.exists /\ cache.data = outAll)

C1_Witness ==
  /\ SaysReturned /\ retcode = Rc(0)
  /\ Len(outAll) >= 2
  /\ cacheBefore.exists /\ cacheBefore.data # <<>> /\ cacheBefore.data # outAll

\* C2: when says() ends an attempt with a nonzero exit code, the cache artifact
\* does not exist, whatever the cache held before the attempt.
C2_FailureNoArtifact ==
  (SaysReturned /\ retcode # Rc(0)) => ~cache.exists

C2_Witness ==
  /\ SaysReturned /\ retcode = Rc(1) /\ engineRan
  /\ outAll # <<>> /\ cacheBefore.exists

\* C3: if the temp path exists when the guard tests it, the engine command is
\* never executed in that attempt, the script exits nonzero and says() reports
\* the error result.
C3_GuardBlocksEngine ==
  Collided =>
    /\ ~engineRan
    /\ sh = "exited" /\ shRc # Rc(0) /\ engRc = NoRc
    /\ SaysReturned => resp = "error"

C3_Witness ==
  SaysReturned /\ Collided /\ resp = "error" /\ ~engineRan

\* C4 as stated: after a collision failure an artifact left by an earlier
\* successful run still exists with the same contents.
C4_ArtifactKept ==
  (SaysReturned /\ Collided /\ cacheBefore.exists) => cache = cacheBefore

\* C4 as amended: after a collision failure the temp file is left in place, and
\* the cache artifact, also one an earlier successful run left, does not exist.
C4_ArtifactDeleted ==
  (SaysReturned /\ Collided) => (tmp = tmpAtGuard /\ ~cache.exists)

C4_Witness ==
  /\ SaysReturned /\ Collided
  /\ cacheBefore.exists /\ cacheBefore.data # <<>>

\* C5 as stated: once says() has returned, the temp path does not exist.
C5_TmpGone == SaysReturned => tmp = "absent"

\* C5 as amended: once says() has returned from an attempt in which the script
\* ran the engine and its rm -f succeeded, the temp path does not exist; an
\* attempt that failed on the collision guard leaves the temp path in place.
C5_TmpGoneAfterEngine ==
  /\ (SaysReturned /\ engineRan /\ rmRc = Rc(0)) => tmp = "absent"
  /\ (SaysReturned /\ Collided) => tmp # "absent"

C5_Witness ==
  SaysReturned /\ engineRan /\ rmRc = Rc(0) /\ retcode = Rc(2) /\ tmp = "absent"

\* C6: when the script runs the engine, the script's exit code is the engine's
\* exit code, whether or not rm -f succeeded, and says() reports success exactly
\* when that code is 0.
C6_ExitCodeOfEngine ==
  /\ (engineRan /\ sh = "exited") => shRc = engRc
  /\ (SaysReturned /\ engineRan) => (retcode = engRc /\ (resp = "ok" <=> engRc = Rc(0)))
  /\ SaysReturned => (resp = "ok" <=> retcode = Rc(0))

C6_Witness ==
  SaysReturned /\ engineRan /\ rmRc = Rc(1) /\ engRc = Rc(0) /\ resp = "ok"

\* speak_result() has executed the step named x
Did(x) == \E i \in 1..Len(steps) : steps[i] = x

\* C7: if the pop times out (no line reached the queue within the window),
\* terminate() is called on the player, the watchdog then waits for it to exit
\* and ends as failed-to-launch, and never enters the wait of line 361.
C7_TimeoutTerminates ==
  Did("empty") =>
    /\ clock = Timeout /\ line = NoLine
    /\ pc \in {"p_term", "p_termwait", "p_failed", "p_ret"}
    /\ ~Did("pop") /\ ~Did("wait_natural") /\ pretcode = NoRc
    /\ pc # "p_term" => (Did("terminate") /\ (sigterm \/ player = "exited"))
    /\ pc \in {"p_failed", "p_ret"} =>
         (Did("wait") /\ player = "exited" /\ "osascript" \notin live)
    /\ pc = "p_ret" => outcome = "failed_to_launch"

C7_Witness ==
  /\ pc = "p_ret" /\ outcome = "failed_to_launch"
  /\ plLog = 0 /\ sigterm /\ plRc = TermStatus

\* C8: if the pop returns a line, whatever its content, the watchdog waits
\* for the player to exit by itself and the exit code alone decides: 0 is
\* success, k # 0 is the runtime failure reported with k, never failed-to-launch.
C8_LineThenExitCode ==
  Did("pop") =>
    /\ line # NoLine
    /\ pc \in {"p_wait", "p_check", "p_ret"}
    /\ ~Did("empty") /\ ~Did("terminate") /\ ~sigterm
    /\ pc \in {"p_check", "p_ret"} =>
         (Did("wait_natural") /\ player = "exited" /\ pretcode = plRc)
    /\ pc = "p_ret" =>
         IF pretcode = Rc(0)
         THEN outcome = "success" /\ reported = NoRc
         ELSE outcome = "runtime_failure" /\ reported = pretcode

C8_Witness ==
  /\ pc = "p_ret" /\ outcome = "runtime_failure" /\ reported = Rc(2)
  /\ line = Str("execution error")

\* C9: if ffmpeg exits nonzero, speak_result() returns at once: no player is
\* spawned, no reader thread is started and no queue pop is made.
C9_ConversionFailFast ==
  (ffRc \notin {NoRc, Rc(0)}) =>
    /\ pc \in {"p_except", "p_ret"}
    /\ player = "none" /\ reader = "none" /\ "osascript" \notin live
    /\ ~Did("spawn") /\ ~Did("thread") /\ ~Did("pop") /\ ~Did("empty")
    /\ pc = "p_ret" => outcome = "conversion_failed"

C9_Witness ==
  pc = "p_ret" /\ ffRc = Rc(2) /\ outcome = "conversion_failed"

\* C10: when says(), speak_result() or list_speakers() has returned, every
\* child it spawned has been waited on.
C10_ChildrenReaped ==
  (pc \in {"s_ret", "p_ret", "l_ret", "idle"}) => live = {}

C10_Witness ==
  /\ pc = "l_ret" /\ lchild = "exited" /\ live = {}
  /\ speakers.present /\ lpipe # <<>>

\* C11: no exception leaves says() or speak_result(): every failure of an
\* external process, a command that cannot be started included, ends as a
\* plain result.
C11_NoExceptionEscapes == exc = "none"

\* the host values that mean local execution
LocalEnv == {"unset", "", "localhost", "127.0.0.1"}
\* the base vector of the command that was built
BaseVector == IF bstep = "tts" THEN <<TtsBin>> \o bargv ELSE <<"bash">>

\* C12: get_host() maps an unset or empty host, 'localhost' and '127.0.0.1'
\* to None and every other string to itself; the builders return the base
\* vector unchanged for None and the base vector behind exactly the two
\* tokens 'ssh', host otherwise.
C12_BuildersPrependSsh ==
  /\ bstep \in {"host", "tts", "bash"} =>
        bhost = IF benv \in LocalEnv THEN None ELSE benv
  /\ bstep \in {"tts", "bash"} =>
        IF benv \in LocalEnv
        THEN bcmd = BaseVector
        ELSE /\ Len(bcmd) = Len(BaseVector) + 2
             /\ bcmd[1] = "ssh" /\ bcmd[2] = benv
             /\ SubSeq(bcmd, 3, Len(bcmd)) = BaseVector

\* a remote tts command with a full argv, and a local one, were built
C12_Witness ==
  /\ bstep = "tts" /\ benv = "h1" /\ Len(bargv) = 2
  /\ bcmd = <<"ssh", "h1", TtsBin>> \o bargv

\* the positions of the main thread inside says()
SaysPcs ==
  {"s_write", "s_close", "s_open", "s_copy", "s_stderr", "s_wait", "s_check",
   "s_resp", "s_ret"}

\* C13: a synthesis attempt always terminates: while says() runs, the parent
\* or the child can take a step, for every amount of data the child writes to
\* stdout and stderr.
C13_SaysNeverStuck == pc \in SaysPcs => ENABLED Next

\* C14: in every synthesis attempt stdin is written and closed before the
\* parent waits for the exit code, and the child's stdout is copied to the
\* cache file up to end-of-stream before the exit code is read and turned
\* into the success or failure result.
C14_OrderOfSteps ==
  /\ (pc = "s_wait" \/ retcode # NoRc) => stdin = "closed"
  /\ (pc = "s_wait" \/ retcode # NoRc) => (outPipe = <<>> /\ sh = "exited")
  /\ pc \in {"s_wait", "s_check"} => cache = File(outAll)
  /\ pc \in {"s_write", "s_close", "s_open", "s_copy", "s_stderr", "s_wait"} =>
        (retcode = NoRc /\ resp = "none")
  /\ resp # "none" => retcode # NoRc

\* the exit code has been read after a copy of two bytes, with diagnostics
C14_Witness ==
  /\ pc = "s_check" /\ retcode = Rc(0)
  /\ Len(outAll) = 2 /\ errAll > 0 /\ cache = File(outAll)

\* C15: terminate() is called only by the playback watchdog and only after
\* its one pop has timed out: never once a line has been popped; and the
\* synthesis child is never signalled by says().
C15_TerminateOnlyOnTimeout ==
  /\ Did("terminate") => (Did("empty") /\ ~Did("pop") /\ line = NoLine)
  /\ (sigterm \/ plRc = TermStatus) => Did("terminate")
  /\ Did("pop") => (~sigterm /\ plRc # TermStatus)
  /\ shRc # TermStatus /\ engRc # TermStatus /\ retcode # TermStatus
  /\ pc \in SaysPcs => ~sigterm

\* a player that was still running at the timeout was ended by the signal
C15_Witness ==
  /\ pc = "p_failed" /\ sigterm /\ plRc = TermStatus
  /\ plLog = 0 /\ clock = Timeout

\* C16: the guard is a test and nothing more: an attempt runs the engine
\* exactly when the temp path was absent at its own test, so two attempts at
\* a time can both pass it (the state of C16_Witness).
C16_GuardIsOnlyATest ==
  \A i \in Attempts :
    /\ ra[i].ran <=> ra[i].tested = "absent"
    /\ ra[i].tested \notin {"untested", "absent"} => ra[i].rc = Rc(1)
    /\ rhist.overlap => \A j \in Attempts : ra[j].tested = "absent"

\* both attempts passed the test and ran the engine on the temp path at the
\* same time, one removed the temp file under the other's engine, and the
\* rollback of one deleted the artifact the other had reported as its result
C16_Witness ==
  /\ rhist.overlap /\ rhist.tmpTaken /\ rhist.artifactTaken
  /\ \E i \in Attempts :
        /\ ra[i].par = "ret" /\ ra[i].resp = "ok"
        /\ ra[Other(i)].par = "ret" /\ ra[Other(i)].resp = "error"
  /\ ~cache.exists

\* the index of the first line of out that starts with the marker, or 0
FirstMarker(out) ==
  IF \E k \in 1..Len(out) : out[k].marker
  THEN CHOOSE k \in 1..Len(out) :
         out[k].marker /\ \A j \in 1..(k - 1) : ~out[j].marker
  ELSE 0
\* the number of lines among the first n of out with the agreement phrase
Agreed(out, n) == Cardinality({j \in 1..n : out[j].agree})
\* the number of lines list_speakers() has read from the child
LinesRead == Len(lout) - Len(lscript) - Len(lpipe)

\* C17: in list_speakers() the result is None exactly when the output ended
\* without a marker line; on the first marker line the reading stops and the
\* result is the list parsed from it; 'y' has been written once for every
\* line with the agreement phrase read before the marker, and for no other.
C17_MarkerOrNone ==
  /\ pc = "l_loop" =>
        /\ \A j \in 1..LinesRead : ~lout[j].marker
        /\ acks = Agreed(lout, LinesRead)
  /\ (lchild # "none" /\ pc \in {"l_close", "l_wait", "l_save", "l_resp", "l_ret"}) =>
        LET k == FirstMarker(lout) IN
          /\ speakers = NoSpeakers <=> k = 0
          /\ IF k = 0
             THEN /\ LinesRead = Len(lout)
                  /\ acks = Agreed(lout, Len(lout))
             ELSE /\ LinesRead = k
                  /\ speakers = Speakers(ParseSpeakers(lout[k].payload))
                  /\ acks = Agreed(lout, k - 1)

\* an agreement line was answered, then a marker line that also holds the
\* phrase ended the loop
C17_Witness ==
  /\ pc = "l_ret" /\ Len(lout) = 2
  /\ lout[1].agree /\ ~lout[1].marker /\ lout[2].marker /\ lout[2].agree
  /\ acks = 1 /\ speakers = Speakers(<<"p225", "p226">>)

\* a diagnostic line of the player was received by the watchdog
LineReceived == line # NoLine /\ line.text \in LogTexts

\* C18: speak_result() ends as success only if a diagnostic line was received
\* and the player then exited with code 0; a player that exits by itself
\* without writing a line, with code 0 too, ends as failed-to-launch.
C18_SilentExitFailsToLaunch ==
  /\ outcome = "success" => (LineReceived /\ pretcode = Rc(0))
  /\ (pc = "p_ret" /\ player = "exited" /\ plLog = 0) =>
        outcome = "failed_to_launch"

\* C19: the reader puts on the queue the lines the player wrote, each once
\* and in order, and nothing else: at end-of-stream it stops.
C19_ReaderDrainsThenExits ==
  /\ \A k \in 1..Len(q) : q[k].text \in LogTexts
  /\ Len(q) + (IF Did("pop") THEN 1 ELSE 0) + Len(plPipe) = plLog

\* the temp file is removed by something outside the orchestrator
RemovedOutside == pc = "idle" /\ pc' = "idle" /\ tmp' = "absent"

\* C20: while the temp path exists and no engine of the running attempt has
\* written it, no step of any attempt starts the engine, reports success or
\* changes the temp path: only a removal from outside ends the collision.
C20_CollisionSticky ==
  [][(tmp # "absent" /\ ~engineRan) =>
       /\ ~engineRan' /\ resp' # "ok"
       /\ tmp' = tmp \/ RemovedOutside]_vars

\* an attempt collided with the file its own earlier run had left behind
C20_Witness ==
  /\ SaysReturned /\ tmpAtGuard = "fresh" /\ tmp = "fresh"
  /\ resp = "error" /\ ~engineRan

============================================================================
